---- MODULE Spec2Model ----
(***************************************************************************)
(* Model of vcfpy/cyhtslib/cyhtslib.pyx: the VCFFile extension type (open, *)
(* sample projection, header loading, iteration, teardown) and the Record  *)
(* extension type (buffer ownership, FILTER accessor).                      *)
(*                                                                         *)
(* One VCFFile object is modelled.  Python objects are reference counted:  *)
(* the caller's reference is userRef, and every Record holds a strong      *)
(* reference to its VCFFile in its field vcf.  The htslib calls are        *)
(* modelled by their documented results.                                    *)
(***************************************************************************)
EXTENDS Integers, Sequences, FiniteSets, TLC

\* ---------------------------------------------------------------- bounds
MaxReads == 2        \* number of __next__ calls on the file
MaxFlt == 2          \* longest filter-id array of a record
MaxReq == 2          \* longest list of requested sample names
MaxHrec == 2         \* most raw header entries of a header
MaxTeardowns == 2    \* number of times the teardown body is run

\* ------------------------------------------------------ values and inputs
NULL == "NULL"
Handle == "handle"

\* The header dictionary of filter ids (BCF_DT_ID); htslib always puts PASS
\* first.  Ids are 0-based.
FilterNames == <<"PASS", "q10">>
FilterIds == 0 .. (Len(FilterNames) - 1)

\* bcf_hdr_int2id(hdr, BCF_DT_ID, id)
bcf_hdr_int2id(id) == FilterNames[id + 1]

SeqsUpTo(S, n) == UNION {[1 .. k -> S] : k \in 0 .. n}

\* The filter-id arrays (b.d.flt, of length b.d.n_flt) a record can carry.
FltArrays == SeqsUpTo(FilterIds, MaxFlt)

\* Sample names; the file holds FileSamples, in this order.
SampleNames == {"A", "B", "Z"}
FileSamples == <<"A", "B">>

Range(s) == {s[i] : i \in 1 .. Len(s)}

IsInjective(s) == \A i, j \in 1 .. Len(s) : s[i] = s[j] => i = j

\* The samples argument of VCFFile.__init__: None, or a list of names.
NoneArg == [isNone |-> TRUE, names |-> <<>>]
ListArg(l) == [isNone |-> FALSE, names |-> l]
SampleArgs ==
    {NoneArg} \cup
    {ListArg(l) : l \in {s \in SeqsUpTo(SampleNames, MaxReq) : Len(s) >= 1 /\ IsInjective(s)}}

\* Raw header entries (bcf_hrec_t): a generic line, a structured line with a
\* registered parser, a structured line without one.
BCF_HL_GEN == "BCF_HL_GEN"
BCF_HL_STR == "BCF_HL_STR"
RawEntries ==
    { [type |-> BCF_HL_GEN, key |-> "fileformat", value |-> "VCFv4.2",
       keys |-> <<>>, vals |-> <<>>],
      [type |-> BCF_HL_STR, key |-> "FILTER", value |-> "",
       keys |-> <<"ID", "Description">>, vals |-> <<"q10", "Low">>],
      [type |-> BCF_HL_STR, key |-> "custom", value |-> "",
       keys |-> <<"ID">>, vals |-> <<"x">>] }
\* bcf_hdr_read always yields at least one entry (the PASS filter line).
HrecChoices == {h \in SeqsUpTo(RawEntries, MaxHrec) : Len(h) >= 1}

\* ------------------------------------------------------------------ state
VARIABLES
    st,         \* "new", "open", "failed" (__init__ raised), "dead" (deallocated)
    userRef,    \* the caller holds a reference to the VCFFile
    hts, hdr, idx, hidx,    \* VCFFile.hts, .hdr, .idx, .hidx: NULL or a handle
    PASS,       \* VCFFile.PASS
    lazy,       \* VCFFile.lazy
    n_samples,  \* VCFFile.n_samples
    samples,    \* VCFFile.samples (the names given to SamplesInfos)
    hdrSamples, \* hdr.samples: the active samples of the header
    hrec,       \* hdr.hrec: the raw header entries
    warned,     \* warnings written to stderr
    atEOF,      \* the stream has reported end-of-file
    bufFreed,   \* per buffer allocated by bcf_init: number of bcf_destroy calls
    recs,       \* per __next__ call: the Record it returned, or NoRec
    lastFilter, \* the last FILTER access: array, cache before, value returned
    header,     \* the result of load_header
    released,   \* number of release calls per file resource
    runs        \* per run of the teardown body: the resources released, in order

vars == <<st, userRef, hts, hdr, idx, hidx, PASS, lazy, n_samples, samples,
          hdrSamples, hrec, warned, atEOF, bufFreed, recs, lastFilter, header,
          released, runs>>

fileVars == <<hts, hdr, idx, hidx>>
openVars == <<lazy, n_samples, samples, hdrSamples, hrec, warned>>
iterVars == <<atEOF, bufFreed, recs>>

Resources == {"hdr", "hts", "idx", "hidx"}

\* What __next__ leaves when it raises StopIteration, and a destroyed Record.
NoRec == [made |-> FALSE, live |-> FALSE, b |-> 0, vcf |-> FALSE, flt |-> <<>>, unpack |-> 0]
DeadRec == [made |-> TRUE, live |-> FALSE, b |-> 0, vcf |-> FALSE, flt |-> <<>>, unpack |-> 0]

NoAccess == [done |-> FALSE, flt |-> <<>>, before |-> 0, kind |-> "none",
             items |-> <<>>, text |-> ""]
NoHeader == [state |-> "unset", lines |-> <<>>, read |-> {}]

\* Fields of a cdef class are zeroed by tp_new.
Init ==
    /\ st = "new"
    /\ userRef = TRUE
    /\ hts = NULL /\ hdr = NULL /\ idx = NULL /\ hidx = NULL
    /\ PASS = 0
    /\ lazy = FALSE
    /\ n_samples = 0
    /\ samples = <<>>
    /\ hdrSamples = <<>>
    /\ hrec = <<>>
    /\ warned = 0
    /\ atEOF = FALSE
    /\ bufFreed = <<>>
    /\ recs = <<>>
    /\ lastFilter = NoAccess
    /\ header = NoHeader
    /\ released = [r \in Resources |-> 0]
    /\ runs = <<>>

\* ------------------------------------------------------------- teardown
Fields == [hdr |-> hdr, hts |-> hts, idx |-> idx, hidx |-> hidx]

\* A teardown that closes the stream before it destroys the header.
VCFFile_dealloc_streamFirst(f) ==
    [ f |-> [hdr |-> NULL, hts |-> NULL, idx |-> f.idx, hidx |-> f.hidx],
      run |-> (IF f.hts # NULL THEN <<"hts">> ELSE <<>>) \o
              (IF f.hdr # NULL THEN <<"hdr">> ELSE <<>>) \o
              (IF f.idx # NULL THEN <<"idx">> ELSE <<>>) \o
              (IF f.hidx # NULL THEN <<"hidx">> ELSE <<>>) ]

\* VCFFile.__dealloc__: the fields it leaves and the resources it releases, in
\* order.  hdr and hts are reset to NULL; idx and hidx are not.
VCFFile_dealloc(f) ==
    [ f |-> [hdr |-> NULL, hts |-> NULL, idx |-> f.idx, hidx |-> f.hidx],
      run |-> (IF f.hdr # NULL THEN <<"hdr">> ELSE <<>>) \o
              (IF f.hts # NULL THEN <<"hts">> ELSE <<>>) \o
              (IF f.idx # NULL THEN <<"idx">> ELSE <<>>) \o
              (IF f.hidx # NULL THEN <<"hidx">> ELSE <<>>) ]

Count(run, r) == Cardinality({i \in 1 .. Len(run) : run[i] = r})

\* One run of the teardown body on the fields f.
Teardown(f) ==
    LET d == VCFFile_dealloc(f) IN
    /\ hdr' = d.f.hdr /\ hts' = d.f.hts /\ idx' = d.f.idx /\ hidx' = d.f.hidx
    /\ released' = [r \in Resources |-> released[r] + Count(d.run, r)]
    /\ runs' = Append(runs, d.run)

\* ----------------------------------------------------- sample projection
\* bcf_hdr_set_samples(hdr, "n1,n2,...", 0): keeps the samples of the file
\* that are named, in file order; returns 0 when every name was found, else
\* the 1-based position of the first name that was not.
Missing(file, names) == {i \in 1 .. Len(names) : names[i] \notin Range(file)}

Min(S) == CHOOSE x \in S : \A y \in S : x <= y

bcf_hdr_set_samples(file, names) ==
    [ ret |-> IF Missing(file, names) = {} THEN 0 ELSE Min(Missing(file, names)),
      kept |-> SelectSeq(file, LAMBDA n : n \in Range(names)) ]

\* VCFFile.set_samples for a list of names (joined with "," and split again;
\* the names hold no comma, so len(s) is the length of the list).  With
\* ret != 0 the code calls samples.split(",") on a bytes object, which raises
\* TypeError when the str literal is unicode (py3) and works otherwise.
set_samples(file, names, py3) ==
    LET r == bcf_hdr_set_samples(file, names) IN
    [ raised |-> r.ret # 0 /\ py3,
      kept |-> r.kept,
      warn |-> IF r.ret # 0 /\ ~py3 /\ r.ret < Len(names) THEN 1 ELSE 0 ]

\* VCFFile.get_samples
get_samples(active) == [i \in 1 .. Len(active) |-> active[i]]

\* ------------------------------------------------------------------ open
OpenOutcomes == {"ok", "badpath", "openfail", "badformat"}
ThreadArgs == {"none", "ok", "neg"}

\* __init__ raised: the half-built object is dropped and deallocated.
OpenFails(f) ==
    /\ st' = "failed"
    /\ userRef' = FALSE
    /\ Teardown(f)
    /\ UNCHANGED <<PASS, lazy, n_samples, samples, hrec, warned, iterVars,
                   lastFilter, header>>

\* VCFFile.__init__(fname, mode, lazy, samples, threads)
Open(outcome, arg, lz, hr, thr, py3) ==
    /\ st = "new"
    /\ IF outcome \in {"badpath", "openfail"}
       THEN OpenFails(Fields) /\ UNCHANGED hdrSamples
       ELSE IF outcome = "badformat"
       THEN OpenFails([Fields EXCEPT !.hts = Handle]) /\ UNCHANGED hdrSamples
       ELSE
         LET f == [Fields EXCEPT !.hts = Handle, !.hdr = Handle]
             ss == IF arg.isNone
                   THEN [raised |-> FALSE, kept |-> FileSamples, warn |-> 0]
                   ELSE set_samples(FileSamples, arg.names, py3)
         IN
         /\ hdrSamples' = ss.kept
         /\ IF ss.raised
            THEN OpenFails(f)
            ELSE IF thr = "neg"
            THEN /\ st' = "failed"
                 /\ userRef' = FALSE
                 /\ Teardown(f)
                 /\ n_samples' = Len(ss.kept)
                 /\ samples' = IF arg.isNone THEN get_samples(ss.kept) ELSE arg.names
                 /\ PASS' = -1
                 /\ lazy' = lz
                 /\ warned' = ss.warn
                 /\ hrec' = hr
                 /\ UNCHANGED <<iterVars, lastFilter, header>>
            ELSE /\ st' = "open"
                 /\ hts' = f.hts /\ hdr' = f.hdr
                 /\ n_samples' = Len(ss.kept)
                 /\ samples' = IF arg.isNone THEN get_samples(ss.kept) ELSE arg.names
                 /\ PASS' = -1
                 /\ lazy' = lz
                 /\ warned' = ss.warn
                 /\ hrec' = hr
                 /\ UNCHANGED <<userRef, idx, hidx, iterVars, lastFilter, header,
                                released, runs>>

\* ------------------------------------------------------ header loading
\* The parser registry of build_header_parsers(); any other tag is parsed by
\* the default parser.
ParserTags == {"ALT", "contig", "FILTER", "FORMAT", "INFO", "META", "PEDIGREE", "SAMPLE"}

RECURSIVE JoinWith(_, _)
JoinWith(sep, parts) ==
    IF Len(parts) = 0 THEN ""
    ELSE IF Len(parts) = 1 THEN parts[1]
    ELSE parts[1] \o sep \o JoinWith(sep, Tail(parts))

\* HeaderLineFactory._build_generic
_build_generic(e) == [cls |-> "HeaderLine", key |-> e.key, value |-> e.value]

\* HeaderLineFactory._build_parsed: "k=repr(v)" pairs joined with ",", handed
\* to the parser registered for the tag, or to the default parser.
_build_parsed(e) ==
    LET mapping_s == JoinWith(",", [i \in 1 .. Len(e.keys) |->
                                       e.keys[i] \o "='" \o e.vals[i] \o "'"])
        parser == IF e.key \in ParserTags THEN e.key ELSE "__default__"
    IN [cls |-> parser, key |-> e.key, value |-> mapping_s]

\* HeaderLineFactory.build
build(e) == IF e.type = BCF_HL_GEN THEN _build_generic(e) ELSE _build_parsed(e)

\* newHeaderLineFactory: HeaderLineFactory.__init__(HeaderLineFactory) is
\* object.__init__ applied to the type and returns None, so the factory is
\* None; the field stores that follow write through it.
newHeaderLineFactory == "None"

\* What a use of the factory can do: with the factory None the field stores
\* and the calls of build go through a None pointer, which is undefined; the
\* build either gets through them or the process dies.
FactoryOutcomes == IF newHeaderLineFactory = "None" THEN {"works", "crash"} ELSE {"works"}

\* VCFFile.load_header: builds hrec[0] once and drops it, then builds every
\* entry in order.  read is the set of (0-based) entry indices it reads.
load_header(hr, outcome) ==
    IF outcome = "crash"
    THEN [state |-> "crash", lines |-> <<>>, read |-> {}]
    ELSE [state |-> "ok",
          lines |-> [i \in 1 .. Len(hr) |-> build(hr[i])],
          read |-> {0} \cup (0 .. (Len(hr) - 1))]

\* The process is alive.
Running == header.state # "crash"

\* _ReaderImpl.__init__ calls load_header right after it built the VCFFile.
LoadHeader(outcome) ==
    /\ st = "open" /\ userRef /\ Running
    /\ header.state = "unset"
    /\ recs = <<>>
    /\ outcome \in FactoryOutcomes
    /\ header' = load_header(hrec, outcome)
    /\ UNCHANGED <<st, userRef, fileVars, PASS, openVars, iterVars, lastFilter,
                   released, runs>>

\* An index handle is acquired for the open file (tabix: idx, or hts: hidx).
LoadIndex(which) ==
    /\ st = "open" /\ userRef /\ Running
    /\ \/ which = "idx" /\ idx = NULL /\ idx' = Handle /\ UNCHANGED hidx
       \/ which = "hidx" /\ hidx = NULL /\ hidx' = Handle /\ UNCHANGED idx
    /\ UNCHANGED <<st, userRef, hts, hdr, PASS, openVars, iterVars, lastFilter,
                   header, released, runs>>

\* ------------------------------------------------------------- iteration
\* bcf_destroy(b)
bcf_destroy(free, b) == [free EXCEPT ![b] = @ + 1]

\* A newRecord that does not store the reference to the VCFFile.
newRecord_noRef(b, lz, flt) ==
    [made |-> TRUE, live |-> TRUE, b |-> b, vcf |-> FALSE, flt |-> flt,
     unpack |-> IF lz THEN 7 ELSE 15]

\* newRecord(b, vcf): the Record owns b and holds a reference to vcf; the
\* unpack mask is 15 (eager) or 1|2|4 (lazy).
newRecord(b, lz, flt) ==
    [made |-> TRUE, live |-> TRUE, b |-> b, vcf |-> TRUE, flt |-> flt,
     unpack |-> IF lz THEN 7 ELSE 15]

\* A __next__ that raises StopIteration without destroying the buffer.
next_result_leak(ret, b, lz, flt, free) ==
    IF ret >= 0
    THEN [rec |-> newRecord(b, lz, flt), free |-> free]
    ELSE [rec |-> NoRec, free |-> free]

\* The two branches of __next__ on the status of bcf_read, for the buffer b
\* just allocated: a Record, or the buffer destroyed and StopIteration.
next_result(ret, b, lz, flt, free) ==
    IF ret >= 0
    THEN [rec |-> newRecord(b, lz, flt), free |-> free]
    ELSE [rec |-> NoRec, free |-> bcf_destroy(free, b)]

\* The statuses bcf_read can return: 0 (a record was read), -1 (end of file),
\* -2 (the record could not be parsed; the stream has moved past it).
ReadStatuses == IF atEOF THEN {-1} ELSE {0, -1, -2}

\* VCFFile.__next__
VCFFile_next(ret, flt) ==
    /\ st = "open" /\ userRef /\ Running
    /\ Len(recs) < MaxReads
    /\ ret \in ReadStatuses
    /\ LET b == Len(bufFreed) + 1
           r == next_result(ret, b, lazy, flt, Append(bufFreed, 0))
       IN /\ recs' = Append(recs, r.rec)
          /\ bufFreed' = r.free
    /\ atEOF' = (atEOF \/ ret = -1)
    /\ UNCHANGED <<st, userRef, fileVars, PASS, openVars, lastFilter, header,
                   released, runs>>

\* References to the VCFFile: the caller's, and one per live Record.
RefCount(u, rs) ==
    (IF u THEN 1 ELSE 0) + Cardinality({i \in 1 .. Len(rs) : rs[i].live /\ rs[i].vcf})

\* After a reference was dropped: the VCFFile is deallocated when none is left.
AfterDecref(u, rs) ==
    IF RefCount(u, rs) = 0
    THEN st' = "dead" /\ Teardown(Fields)
    ELSE UNCHANGED <<st, fileVars, released, runs>>

\* Record.__dealloc__: destroys the buffer unless b is NULL, and resets b.
Record_dealloc(rec, free) ==
    [rec |-> DeadRec, free |-> IF rec.b # 0 THEN bcf_destroy(free, rec.b) ELSE free]

\* The last reference to Record i goes: __dealloc__ runs, then the Record's
\* reference to the VCFFile is dropped.
DestroyRecord(i) ==
    /\ Running
    /\ i \in 1 .. Len(recs) /\ recs[i].live
    /\ LET d == Record_dealloc(recs[i], bufFreed)
           rs == [recs EXCEPT ![i] = d.rec]
       IN /\ recs' = rs
          /\ bufFreed' = d.free
          /\ IF recs[i].vcf THEN AfterDecref(userRef, rs)
             ELSE UNCHANGED <<st, fileVars, released, runs>>
    /\ UNCHANGED <<userRef, PASS, openVars, atEOF, lastFilter, header>>

\* The caller drops its reference to the VCFFile.
DropRef ==
    /\ st = "open" /\ userRef /\ Running
    /\ userRef' = FALSE
    /\ AfterDecref(FALSE, recs)
    /\ UNCHANGED <<PASS, openVars, iterVars, lastFilter, header>>

\* The teardown body is run again on the torn-down file.
DeallocAgain ==
    /\ st \in {"dead", "failed"} /\ Running
    /\ Len(runs) < MaxTeardowns
    /\ Teardown(Fields)
    /\ UNCHANGED <<st, userRef, PASS, openVars, iterVars, lastFilter, header>>

\* ---------------------------------------------------------------- FILTER
List(items) == [kind |-> "list", items |-> items, text |-> ""]
Bytes(text) == [kind |-> "bytes", items |-> <<>>, text |-> text]

\* A FILTER that resolves and caches again when the id is not the cached one.
Record_FILTER_recache(flt, cache) ==
    LET n == Len(flt)
        joined == Bytes(JoinWith(";", [i \in 1 .. n |-> bcf_hdr_int2id(flt[i])]))
    IN
    IF n = 1 /\ cache # -1 /\ flt[1] = cache
    THEN [ret |-> List(<<>>), cache |-> cache]
    ELSE IF n = 1
    THEN IF bcf_hdr_int2id(flt[1]) = "PASS"
         THEN [ret |-> List(<<"PASS">>), cache |-> flt[1]]
         ELSE [ret |-> Bytes(bcf_hdr_int2id(flt[1])), cache |-> flt[1]]
    ELSE IF n = 0
    THEN [ret |-> List(<<>>), cache |-> cache]
    ELSE [ret |-> joined, cache |-> cache]

\* Record.FILTER.__get__: the value returned and the PASS cache it leaves.
Record_FILTER(flt, cache) ==
    LET n == Len(flt)
        joined == Bytes(JoinWith(";", [i \in 1 .. n |-> bcf_hdr_int2id(flt[i])]))
    IN
    IF n = 1 /\ cache # -1 /\ flt[1] = cache
    THEN [ret |-> List(<<>>), cache |-> cache]
    ELSE IF n = 1 /\ cache = -1
    THEN IF bcf_hdr_int2id(flt[1]) = "PASS"
         THEN [ret |-> List(<<"PASS">>), cache |-> flt[1]]
         ELSE [ret |-> Bytes(bcf_hdr_int2id(flt[1])), cache |-> cache]
    ELSE IF n = 0
    THEN [ret |-> List(<<>>), cache |-> cache]
    ELSE [ret |-> joined, cache |-> cache]

\* FILTER is read on the live Record i.
FilterAccess(i) ==
    /\ Running
    /\ i \in 1 .. Len(recs) /\ recs[i].live
    /\ LET r == Record_FILTER(recs[i].flt, PASS) IN
       /\ PASS' = r.cache
       /\ lastFilter' = [done |-> TRUE, flt |-> recs[i].flt, before |-> PASS,
                         kind |-> r.ret.kind, items |-> r.ret.items, text |-> r.ret.text]
    /\ UNCHANGED <<st, userRef, fileVars, openVars, iterVars, header, released, runs>>

\* -------------------------------------------------------- specifications
\* The header bcf_hdr_read yields for a file without metadata of its own.
DefaultHrec ==
    << [type |-> BCF_HL_GEN, key |-> "fileformat", value |-> "VCFv4.2",
        keys |-> <<>>, vals |-> <<>>] >>

\* VCFFile(fname, mode, lazy): no sample list.
OpenPlain ==
    /\ st = "new"
    /\ \E o \in OpenOutcomes, lz \in BOOLEAN, t \in ThreadArgs :
          Open(o, NoneArg, lz, DefaultHrec, t, TRUE)

\* VCFFile(fname, mode, lazy, samples, threads) on any header.
OpenAny ==
    /\ st = "new"
    /\ \E o \in OpenOutcomes, a \in SampleArgs, lz \in BOOLEAN, hr \in HrecChoices,
          t \in ThreadArgs, py3 \in BOOLEAN : Open(o, a, lz, hr, t, py3)

\* next() on a stream of records without filters.
IterateBare ==
    /\ st = "open" /\ Len(recs) < MaxReads
    /\ \E ret \in {0, -1, -2} : VCFFile_next(ret, <<>>)

\* next() on a stream of records with any filter array.
IterateAny ==
    /\ st = "open" /\ Len(recs) < MaxReads
    /\ \E ret \in {0, -1, -2}, flt \in FltArrays : VCFFile_next(ret, flt)

\* Life cycle of the file, its index handles, its buffers and its Records.
Next ==
    \/ OpenPlain
    \/ \E w \in {"idx", "hidx"} : LoadIndex(w)
    \/ IterateBare
    \/ \E i \in 1 .. MaxReads : DestroyRecord(i)
    \/ DropRef
    \/ DeallocAgain

Spec == Init /\ [][Next]_vars

\* Records of every filter array, and FILTER read on them.
NextFilter ==
    \/ OpenPlain
    \/ IterateAny
    \/ \E i \in 1 .. MaxReads : FilterAccess(i)
    \/ \E i \in 1 .. MaxReads : DestroyRecord(i)
    \/ DropRef

SpecFilter == Init /\ [][NextFilter]_vars

\* _ReaderImpl.__init__: the file is opened and its header loaded.
NextReader ==
    \/ OpenAny
    \/ \E o \in {"works", "crash"} : LoadHeader(o)
    \/ DropRef
    \/ DeallocAgain

SpecReader == Init /\ [][NextReader]_vars

\* ---------------------------------------------------------------- claims
Calls == 1 .. Len(recs)
LiveRecords == {i \in Calls : recs[i].live}

\* The last FILTER access was on a record with one filter id.
SingleFilter == lastFilter.done /\ Len(lastFilter.flt) = 1

\* C1: a record whose single filter id resolves to PASS reads FILTER as the
\* empty list, whether or not the PASS id was cached before the access.
C1_PassIsEmptyList ==
    (SingleFilter /\ bcf_hdr_int2id(lastFilter.flt[1]) = "PASS")
        => (lastFilter.kind = "list" /\ lastFilter.items = <<>>)

\* C2: a record whose single filter id resolves to another name reads FILTER
\* as the one-element list of that name, whatever the state of the cache.
C2_SingleNameIsList ==
    (SingleFilter /\ bcf_hdr_int2id(lastFilter.flt[1]) # "PASS")
        => (lastFilter.kind = "list"
            /\ lastFilter.items = <<bcf_hdr_int2id(lastFilter.flt[1])>>)

\* C3: after open, VCFFile.samples is the active sample list of the header
\* (the requested names present in the file; every sample when none was
\* requested).
C3_SamplesAreActive ==
    st = "open" => samples = hdrSamples

\* C4: every buffer allocated by __next__ is released exactly once: within
\* the call when the read failed (and no Record was made), else by the
\* destruction of the one Record that owns it; until then it is not released.
C4_BuffersReleasedOnce ==
    /\ Len(bufFreed) = Len(recs)
    /\ \A b \in 1 .. Len(bufFreed) :
          LET owners == {i \in LiveRecords : recs[i].b = b} IN
          /\ Cardinality(owners) <= 1
          /\ bufFreed[b] = (IF owners = {} THEN 1 ELSE 0)
          /\ (~recs[b].made => owners = {} /\ bufFreed[b] = 1)

\* A failed read and a destroyed Record, each with its buffer released, and
\* a live Record that still owns its buffer can all be seen.
C4_Witness ==
    /\ \E i \in Calls : ~recs[i].made /\ bufFreed[i] = 1
    /\ \E j \in Calls : recs[j].made /\ ~recs[j].live /\ bufFreed[j] = 1

Rank(order, r) == CHOOSE k \in 1 .. Len(order) : order[k] = r
Ordered(run, order) ==
    \A i, j \in 1 .. Len(run) : i < j => Rank(order, run[i]) < Rank(order, run[j])

\* C5 as claimed: a teardown releases the index structures first, then the
\* header, then the stream.
C5_IndexHeaderStream ==
    \A k \in 1 .. Len(runs) :
        \A i, j \in 1 .. Len(runs[k]) :
            i < j => /\ ~(runs[k][i] \in {"hdr", "hts"} /\ runs[k][j] \in {"idx", "hidx"})
                     /\ ~(runs[k][i] = "hts" /\ runs[k][j] = "hdr")

\* C5 amended: a teardown releases the header first, then the stream, then
\* the tabix index, then the hts index.
C5_HeaderStreamIndex ==
    \A k \in 1 .. Len(runs) : Ordered(runs[k], <<"hdr", "hts", "idx", "hidx">>)

\* A teardown that released all four resources.
C5_Witness ==
    \E k \in 1 .. Len(runs) : runs[k] = <<"hdr", "hts", "idx", "hidx">>

\* C6: however often the teardown runs, no resource is released twice.
C6_ReleasedAtMostOnce ==
    \A r \in Resources : released[r] <= 1

\* C7: the PASS cache is -1 after open, changes only from -1 to the id of the
\* name PASS, and is not changed once set.
C7_PassCacheWrittenOnce ==
    [][ /\ (st = "new" /\ st' = "open") => PASS' = -1
        /\ (st = "open" /\ PASS' # PASS)
              => (PASS = -1 /\ PASS' \in FilterIds /\ bcf_hdr_int2id(PASS') = "PASS") ]_vars

\* The cache is set and a later access read another id.
C7_Witness ==
    /\ st = "open" /\ PASS = 0
    /\ lastFilter.done /\ lastFilter.before = 0 /\ lastFilter.flt = <<1>>

\* C8: load_header yields one line per raw entry, in order, each the
\* factory's result for its entry, and reads no entry outside 0..N-1.
C8_HeaderLinesInOrder ==
    header.state # "unset" =>
        /\ header.state = "ok"
        /\ Len(header.lines) = Len(hrec)
        /\ \A i \in 1 .. Len(hrec) : header.lines[i] = build(hrec[i])
        /\ header.read \subseteq 0 .. (Len(hrec) - 1)

\* C9: once a __next__ call raised StopIteration, no later call returns a
\* Record.
C9_TerminationIsFinal ==
    \A i, j \in Calls : (i < j /\ ~recs[i].made) => ~recs[j].made

\* C10: while a Record is alive its VCFFile has not been torn down.
C10_FileOutlivesRecords ==
    LiveRecords # {} => (st = "open" /\ hdr # NULL /\ hts # NULL /\ runs = <<>>)

\* A Record is alive after the caller dropped its reference to the file.
C10_Witness ==
    ~userRef /\ LiveRecords # {} /\ st = "open"

====
